---- MODULE Spec2Model ----
(***************************************************************************)
(* The workflow orchestration core of the Outlook sign-up agent:           *)
(* src/agent/graph.py (WorkingNameInputAgent), src/agent/state.py and the  *)
(* tool wrappers of src/tools.  One run of the LangGraph state graph       *)
(*   initialize -> policy -> tools -> evaluate -> {policy, cleanup, error} *)
(* is modelled node by node.  Tool results are the free-text strings the   *)
(* tools return; the evaluator classifies them by substring tests, which   *)
(* are computed here on the strings themselves.                            *)
(***************************************************************************)
EXTENDS Integers, Sequences, FiniteSets, TLC

VARIABLES
    node,                 \* "queued" before the workflow task runs, then the graph
                          \* node to run next, "end" after END, "done" / "raised"
                          \* once run() has returned
    steps,                \* supersteps executed so far (graph recursion counter)
    max_tool_calls,       \* WorkingNameInputAgent.max_tool_calls
    recursion_limit,      \* WorkingNameInputAgent.recursion_limit
    tools,                \* self.tools is set (a ToolNode exists)
    first_name, last_name, date_of_birth,   \* run() arguments
    account_data,         \* state["account_data"], NoAccount before initialize
    current_step,         \* state["current_step"]
    progress_percentage,  \* state["progress_percentage"]
    success,              \* state["success"]
    flags,                \* the step flags of the state dict
    consecutive_errors,   \* state["consecutive_errors"]
    tool_calls_made,      \* len(state["tool_call_history"])
    tool_faults,          \* ToolNode invocations that raised so far
    error_message,        \* state["error_message"]
    last_message,         \* state["messages"][-1]
    driver,               \* "none", "open" or "quit"
    summary,              \* the dict run() returns, NoSummary before
    automation_status,    \* automation["status"]
    cancelled,            \* automation["cancelled"]
    runs,                 \* the run() calls in progress on one agent object
    self_tools,           \* the driver the tools of that agent's self.tools use
    use_llm,              \* WorkingNameInputAgent.use_llm, OutlookAgentPolicy.use_llm
    response,             \* what llm_client.generate_response does when called
    advice,               \* the dict analyze_error_and_suggest_action returned
    waiter,               \* a call of AuthenticationWaiter.ui_wait_progress_gone
    nav                   \* a call of PostAuthNavigator.post_auth_fast_path

vars == << node, steps, max_tool_calls, recursion_limit, tools,
           first_name, last_name, date_of_birth, account_data,
           current_step, progress_percentage, success, flags,
           consecutive_errors, tool_calls_made, tool_faults,
           error_message, last_message, driver, summary, automation_status,
           cancelled, runs, self_tools, use_llm, response, advice, waiter,
           nav >>

(***************************************************************************)
(* Bounds of the model.                                                    *)
(***************************************************************************)
MaxBudget == 24          \* largest max_tool_calls a run is configured with
MaxToolFaults == 1       \* ToolNode invocations that may raise in one run

(***************************************************************************)
(* Python string operations used by the evaluator.                         *)
(***************************************************************************)
UpperChars == "ABCDEFGHIJKLMNOPQRSTUVWXYZ"
LowerChars == "abcdefghijklmnopqrstuvwxyz"
Digits == "0123456789"

Char(s, i) == SubSeq(s, i, i)

\* position of a character in an alphabet, 0 when it is not in it
IndexIn(alphabet, c) ==
    LET hits == { i \in 1..Len(alphabet) : Char(alphabet, i) = c }
    IN  IF hits = {} THEN 0 ELSE CHOOSE i \in hits : TRUE

MapChar(c, from, to) ==
    LET i == IndexIn(from, c) IN IF i = 0 THEN c ELSE Char(to, i)

\* the characters lo..hi of s, each character of `from` replaced by its
\* partner in `to`
RECURSIVE MapRange(_, _, _, _, _)
MapRange(s, lo, hi, from, to) ==
    IF lo > hi THEN ""
    ELSE IF lo = hi THEN MapChar(Char(s, lo), from, to)
    ELSE LET mid == (lo + hi) \div 2
         IN  MapRange(s, lo, mid, from, to) \o MapRange(s, mid + 1, hi, from, to)

MapString(s, from, to) == MapRange(s, 1, Len(s), from, to)

\* str.lower() and str.upper() on the ASCII text the tools return
lower(s) == MapString(s, UpperChars, LowerChars)
upper(s) == MapString(s, LowerChars, UpperChars)

\* Python's  k in s  for strings
contains(s, k) ==
    \E i \in 1..(Len(s) - Len(k) + 1) : SubSeq(s, i, i + Len(k) - 1) = k

\* text[:20] followed by "..." when the text is longer
Truncate20(text) ==
    IF Len(text) > 20 THEN SubSeq(text, 1, 20) \o "..." ELSE text

\* int(s) for a string of decimal digits, -1 when s is not one
ParseInt(s) ==
    LET digits == { i \in 1..Len(s) : IndexIn(Digits, Char(s, i)) # 0 }
        value[n \in 0..Len(s)] ==
            IF n = 0 THEN 0
            ELSE 10 * value[n - 1] + (IndexIn(Digits, Char(s, n)) - 1)
    IN  IF s = "" \/ digits # 1..Len(s) THEN -1 ELSE value[Len(s)]

(***************************************************************************)
(* WorkflowStep and the state dictionary of state.py.                      *)
(***************************************************************************)
INIT == "init"
WELCOME == "welcome"
EMAIL == "email"
PASSWORD == "password"
DETAILS == "details"
NAME == "name"
CAPTCHA == "captcha"
AUTH_WAIT == "auth_wait"
POST_AUTH == "post_auth"
VERIFY == "verify"
CLEANUP == "cleanup"
ERROR == "error"

\* the members of the enumeration in declaration order
WorkflowStep ==
    << INIT, WELCOME, EMAIL, PASSWORD, DETAILS, NAME, CAPTCHA,
       AUTH_WAIT, POST_AUTH, VERIFY, CLEANUP, ERROR >>

StepIndex(s) == CHOOSE i \in 1..Len(WorkflowStep) : WorkflowStep[i] = s

\* flags initialised by create_initial_state, and the flags the graph reads
\* with state.get(name, False) without initialising them
FlagNames ==
    { "email_typed", "password_typed",
      "details_day_selected", "details_day_value_selected",
      "details_month_selected", "details_month_value_selected",
      "details_year_typed",
      "first_name_typed", "last_name_typed",
      "captcha_pressed", "auth_completed", "inbox_reached",
      "name_fields_accessed", "name_fallback_tried", "captcha_button_found" }

NoAccount == [username |-> "", email |-> "", password |-> "",
              first_name |-> "", last_name |-> "", date_of_birth |-> "",
              birth_day |-> 0, birth_month |-> "", birth_year |-> 0]

\* messages: only the last one is read (by the ToolNode and by evaluate_node)
NoCall == [name |-> "none"]
NoMessage == [type |-> "none", call |-> NoCall, content |-> ""]
AIMessage(call) == [type |-> "ai", call |-> call, content |-> ""]
ToolMessage(content) == [type |-> "tool", call |-> NoCall, content |-> content]

\* run() arguments the model draws from
FirstNames == {"Maria"}
LastNames == {"Lopez"}
DateInputs == {"1990-03-07"}

MonthNames ==
    << "January", "February", "March", "April", "May", "June", "July",
       "August", "September", "October", "November", "December" >>

\* the longest each month can be (strptime rejects a day beyond it)
DaysInMonth == << 31, 29, 31, 30, 31, 30, 31, 31, 30, 31, 30, 31 >>

\* datetime.strptime(date_of_birth, "%Y-%m-%d"), [ok |-> FALSE] for ValueError
ParseDate(d) ==
    LET y  == ParseInt(SubSeq(d, 1, 4))
        m  == ParseInt(SubSeq(d, 6, 7))
        dd == ParseInt(SubSeq(d, 9, 10))
    IN  IF /\ Len(d) = 10
           /\ Char(d, 5) = "-" /\ Char(d, 8) = "-"
           /\ y >= 1 /\ m \in 1..12 /\ dd >= 1 /\ dd <= DaysInMonth[m]
        THEN [ok |-> TRUE, day |-> dd, month |-> MonthNames[m], year |-> y]
        ELSE [ok |-> FALSE, day |-> 0, month |-> "", year |-> 0]

\* the random parts of the generated account, fixed to one draw
RandomUserDigits == "123456"
RandomPassDigits == "123"

generate_outlook_account_data(fn, ln, dob) ==
    LET p == ParseDate(dob)
        username == "fix" \o RandomUserDigits
    IN  [ username |-> username,
          email |-> username \o "@outlook.com",
          password |-> "Fixed" \o RandomPassDigits \o "Pass!",
          first_name |-> fn,
          last_name |-> ln,
          date_of_birth |-> dob,
          birth_day |-> IF p.ok THEN p.day ELSE 15,
          birth_month |-> IF p.ok THEN p.month ELSE "January",
          birth_year |-> IF p.ok THEN p.year ELSE 1995 ]

Accounts ==
    { generate_outlook_account_data(fn, ln, dob) :
        fn \in FirstNames, ln \in LastNames, dob \in DateInputs }

(***************************************************************************)
(* Tool calls planned by the policy node (graph.py, lines 163-498).        *)
(***************************************************************************)
NoIndex == -1   \* element_index is None

ToolCall(name, action, locator, strategy, text, description, element_index, amount) ==
    [ name |-> name, action |-> action, locator |-> locator, strategy |-> strategy,
      text |-> text, description |-> description,
      element_index |-> element_index, amount |-> amount ]

EditText == "android.widget.EditText"
CaptchaButton == "//android.widget.Button[contains(@text,'Press')]"

CallWelcome ==
    ToolCall("mobile_ui", "click", "//*[contains(@text, 'CREATE NEW ACCOUNT')]", "xpath",
             "", "Click CREATE NEW ACCOUNT", NoIndex, 0)
CallEmailType(acc) ==
    ToolCall("mobile_ui", "type", EditText, "class", acc.username, "Type email", NoIndex, 0)
CallEmailNext ==
    ToolCall("mobile_ui", "next_button", "", "", "", "Next after email", NoIndex, 0)
CallPasswordType(acc) ==
    ToolCall("mobile_ui", "type", EditText, "class", acc.password, "Type password", NoIndex, 0)
CallPasswordNext ==
    ToolCall("mobile_ui", "next_button", "", "", "", "Next after password", NoIndex, 0)
CallDetailsTransition ==
    ToolCall("mobile_ui", "next_button", "", "", "",
             "TRANSITION_TO_NAME: Next after all details complete", NoIndex, 0)
CallDayDropdown ==
    ToolCall("mobile_ui", "click", "//*[contains(@text, 'Day')]", "xpath",
             "", "Open Day dropdown", NoIndex, 0)
CallDayValue(acc) ==
    ToolCall("mobile_ui", "click", "//*[@text='" \o ToString(acc.birth_day) \o "']", "xpath",
             "", "Select day " \o ToString(acc.birth_day), NoIndex, 0)
CallMonthDropdown ==
    ToolCall("mobile_ui", "click", "//*[contains(@text, 'Month')]", "xpath",
             "", "Open Month dropdown", NoIndex, 0)
CallMonthValue(acc) ==
    ToolCall("mobile_ui", "click", "//*[@text='" \o acc.birth_month \o "']", "xpath",
             "", "Select month " \o acc.birth_month, NoIndex, 0)
CallYearType(acc) ==
    ToolCall("mobile_ui", "type", EditText, "class", ToString(acc.birth_year),
             "Type year " \o ToString(acc.birth_year), NoIndex, 0)
CallDetailsFallback ==
    ToolCall("mobile_ui", "next_button", "", "", "", "Next fallback", NoIndex, 0)
CallNameElements ==
    ToolCall("mobile_ui", "get_elements", EditText, "class", "",
             "Get all EditText elements for names (COMP.PY METHOD)", NoIndex, 0)
CallFirstName(acc) ==
    ToolCall("mobile_ui", "type_element_index", EditText, "class", acc.first_name,
             "Type first name in element[0] - COMP.PY METHOD", 0, 0)
CallLastName(acc) ==
    ToolCall("mobile_ui", "type_element_index", EditText, "class", acc.last_name,
             "Type last name in element[1] - COMP.PY METHOD", 1, 0)
CallLastNameFallback(acc) ==
    ToolCall("mobile_ui", "type",
             "new UiSelector().className(\"android.widget.EditText\").instance(1)",
             "uiautomator", acc.last_name,
             "COMP.PY FALLBACK: Type last name (instance 1)", NoIndex, 0)
CallNameNext ==
    ToolCall("mobile_ui", "next_button", "", "", "",
             "Next after names (COMP.PY METHOD SUCCESS)", NoIndex, 0)
CallCaptchaWait ==
    ToolCall("mobile_ui", "wait_for", CaptchaButton, "xpath", "",
             "Wait for CAPTCHA button", NoIndex, 10)
CallCaptchaLongPress ==
    ToolCall("gestures", "long_press", CaptchaButton, "xpath", "",
             "Long press CAPTCHA 15s", NoIndex, 15000)
CallAuthWait ==
    ToolCall("navigator", "wait_auth", "", "", "", "Wait authentication", NoIndex, 90)
CallPostAuth ==
    ToolCall("navigator", "fast_path", "", "", "", "Fast path post-auth", NoIndex, 7)
CallVerify ==
    ToolCall("mobile_ui", "wait_for", "//*[@text='Search']", "xpath", "",
             "Wait for inbox", NoIndex, 10)

\* _create_fallback_tool_call
_create_fallback_tool_call ==
    ToolCall("ocr", "capture_and_read", "", "", "", "", NoIndex, 0)

\* the EMAIL branch of _create_working_tool_call
PlanEmail(fl, acc) ==
    IF ~fl["email_typed"] THEN CallEmailType(acc) ELSE CallEmailNext

\* the PASSWORD branch
PlanPassword(fl, acc) ==
    IF ~fl["password_typed"] THEN CallPasswordType(acc) ELSE CallPasswordNext

\* the DETAILS branch with the year asked for before the month
PlanDetails_year_first(fl, acc) ==
    IF /\ fl["details_day_value_selected"]
       /\ fl["details_month_value_selected"]
       /\ fl["details_year_typed"]
    THEN CallDetailsTransition
    ELSE IF ~fl["details_day_selected"] THEN CallDayDropdown
    ELSE IF fl["details_day_selected"] /\ ~fl["details_day_value_selected"]
         THEN CallDayValue(acc)
    ELSE IF ~fl["details_year_typed"] THEN CallYearType(acc)
    ELSE IF ~fl["details_month_selected"] THEN CallMonthDropdown
    ELSE IF fl["details_month_selected"] /\ ~fl["details_month_value_selected"]
         THEN CallMonthValue(acc)
    ELSE CallDetailsFallback

\* the DETAILS branch
PlanDetails(fl, acc) ==
    IF /\ fl["details_day_value_selected"]
       /\ fl["details_month_value_selected"]
       /\ fl["details_year_typed"]
    THEN CallDetailsTransition
    ELSE IF ~fl["details_day_selected"] THEN CallDayDropdown
    ELSE IF fl["details_day_selected"] /\ ~fl["details_day_value_selected"]
         THEN CallDayValue(acc)
    ELSE IF ~fl["details_month_selected"] THEN CallMonthDropdown
    ELSE IF fl["details_month_selected"] /\ ~fl["details_month_value_selected"]
         THEN CallMonthValue(acc)
    ELSE IF ~fl["details_year_typed"] THEN CallYearType(acc)
    ELSE CallDetailsFallback

\* the NAME branch
PlanName(fl, acc) ==
    IF ~fl["name_fields_accessed"] THEN CallNameElements
    ELSE IF ~fl["first_name_typed"] THEN CallFirstName(acc)
    ELSE IF ~fl["last_name_typed"] THEN CallLastName(acc)
    ELSE IF ~fl["name_fallback_tried"] THEN CallLastNameFallback(acc)
    ELSE CallNameNext

\* the CAPTCHA branch
PlanCaptcha(fl) ==
    IF ~fl["captcha_button_found"] THEN CallCaptchaWait ELSE CallCaptchaLongPress

\* _create_working_tool_call: the call planned for a step, its flags and the account
_create_working_tool_call(step, fl, acc) ==
    CASE step = WELCOME -> CallWelcome
      [] step = EMAIL -> PlanEmail(fl, acc)
      [] step = PASSWORD -> PlanPassword(fl, acc)
      [] step = DETAILS -> PlanDetails(fl, acc)
      [] step = NAME -> PlanName(fl, acc)
      [] step = CAPTCHA -> PlanCaptcha(fl)
      [] step = AUTH_WAIT -> CallAuthWait
      [] step = POST_AUTH -> CallPostAuth
      [] step = VERIFY -> CallVerify
      [] OTHER -> _create_fallback_tool_call

\* every call the planner can emit
PlannedCalls ==
    { CallWelcome, CallEmailNext, CallPasswordNext, CallDetailsTransition,
      CallDayDropdown, CallMonthDropdown, CallDetailsFallback, CallNameElements,
      CallNameNext, CallCaptchaWait, CallCaptchaLongPress, CallAuthWait,
      CallPostAuth, CallVerify, _create_fallback_tool_call }
    \cup UNION { { CallEmailType(acc), CallPasswordType(acc), CallDayValue(acc),
                   CallMonthValue(acc), CallYearType(acc), CallFirstName(acc),
                   CallLastName(acc), CallLastNameFallback(acc) } : acc \in Accounts }

(***************************************************************************)
(* What the tools return (src/tools).  `how` is what the UI collaborator   *)
(* did: "ok" (returned True), "fail" (returned False), "adb" (send_keys    *)
(* raised and the adb fallback ran), "raise" (both raised).                *)
(***************************************************************************)
DurationMs == 12                 \* a measured duration, echoed in the text
DriverErrorText == "element not interactable"

FormatResult(action, status, message, duration_ms) ==
    "Action: " \o action \o " | Status: " \o status \o " | Message: " \o message
        \o " | Duration: " \o ToString(duration_ms) \o "ms"

\* MobileUI has no ui_wait_for / ui_exists / ui_clear method: the call raises
\* AttributeError, caught by the outer handler of MobileUITool._run
MissingMethod(m) == "'MobileUI' object has no attribute '" \o m \o "'"

MobileUIOutcomes(call) ==
    CASE call.action \in {"click", "type", "next_button", "get_elements"} -> {"ok", "fail"}
      [] call.action = "type_element_index" -> {"ok", "adb", "raise", "fail"}
      [] OTHER -> {"raise"}

MobileUIMessage(call, how) ==
    LET action_desc == IF call.description # "" THEN call.description
                       ELSE call.action \o " action"
        idx == ToString(call.element_index)
    IN
    CASE call.action = "click" ->
            IF how = "ok" THEN "Clicked: " \o action_desc
            ELSE "Failed to click: " \o action_desc
      [] call.action = "type" ->
            IF how = "ok"
            THEN "Typed: " \o action_desc \o " = '" \o Truncate20(call.text) \o "''"
            ELSE "Failed to type: " \o action_desc
      [] call.action = "next_button" ->
            IF how = "ok" THEN "Clicked next button" ELSE "Failed to click next button"
      [] call.action = "get_elements" ->
            IF how = "ok"
            THEN "Found 2 elements, cached for COMP.PY method: " \o action_desc
            ELSE "Insufficient elements (1) for COMP.PY method: " \o action_desc
      [] call.action = "type_element_index" ->
            CASE how = "ok" ->
                    "COMP.PY METHOD: Typed '" \o call.text \o "' in element[" \o idx
                        \o "]: " \o action_desc
              [] how = "adb" ->
                    "COMP.PY ADB FALLBACK: Typed '" \o call.text \o "' in element[" \o idx
                        \o "]: " \o action_desc
              [] how = "raise" ->
                    "Failed to type in element[" \o idx \o "]: " \o DriverErrorText
              [] OTHER ->
                    "Element index " \o idx \o " not available (found 1 elements): "
                        \o action_desc
      [] call.action = "wait_for" -> "Exception - " \o MissingMethod("ui_wait_for")
      [] call.action = "exists" -> "Exception - " \o MissingMethod("ui_exists")
      [] call.action = "clear" -> "Exception - " \o MissingMethod("ui_clear")
      [] OTHER -> "Unknown action '" \o call.action \o "'"

\* MobileUITool._run
MobileUIRun(call, how) ==
    CASE call.action = "type" /\ (call.locator = "" \/ call.text = "") ->
            FormatResult("type", "ERROR",
                         "Both locator and text are required for type action", 0)
      [] call.action \in {"click", "type", "next_button", "get_elements",
                          "type_element_index"} ->
            FormatResult(call.action,
                         IF how \in {"ok", "adb"} THEN "SUCCESS" ELSE "FAILED",
                         MobileUIMessage(call, how), DurationMs)
      [] call.action \in {"wait_for", "exists", "clear"} ->
            FormatResult(call.action, "ERROR", MobileUIMessage(call, how), DurationMs)
      [] OTHER -> FormatResult("unknown", "ERROR", MobileUIMessage(call, how), 0)

\* GesturesTool._run and NavigatorTool._run
GesturesRun(call, how) == "Gesture execution placeholder"
NavigatorRun(call, how) == "Navigator execution placeholder"

\* OCRTool._run for capture_and_read: the text read from the screen is an input
ScreenTexts == {"Search"}
OCROutcomes == {"no_text"} \cup ScreenTexts

OCRRun(call, how) ==
    "OCR: " \o call.action \o " | Status: "
        \o (IF how = "no_text" THEN "NO_TEXT" ELSE "SUCCESS")
        \o " | Message: OCR by tesseract ("
        \o (IF how = "no_text" THEN "0" ELSE "87") \o "% confidence): '"
        \o (IF how = "no_text" THEN "No text found" ELSE how)
        \o "' | Duration: " \o ToString(DurationMs) \o "ms"

ToolOutcomes(call) ==
    CASE call.name = "mobile_ui" -> MobileUIOutcomes(call)
      [] call.name = "ocr" -> OCROutcomes
      [] OTHER -> {"ok"}

\* the content of the ToolMessage the ToolNode appends for a call
ToolRun(call, how) ==
    CASE call.name = "mobile_ui" -> MobileUIRun(call, how)
      [] call.name = "gestures" -> GesturesRun(call, how)
      [] call.name = "navigator" -> NavigatorRun(call, how)
      [] OTHER -> OCRRun(call, how)

\* every text the repository's tools return for a planned call
ToolTexts ==
    UNION { { ToolRun(call, how) : how \in ToolOutcomes(call) } : call \in PlannedCalls }

(***************************************************************************)
(* Outcome texts of an executor as section 4.3 of the specification        *)
(* describes it: tool name, verb, outcome word and the human description   *)
(* of the request.  evaluate_node accepts any ToolMessage content, and     *)
(* these texts exercise the transitions that the texts of the repository's *)
(* own tools never trigger.                                                *)
(***************************************************************************)
OutcomeWord(call) ==
    CASE call.action \in {"click", "next_button"} -> "Clicked"
      [] call.action \in {"type", "type_element_index"} -> "Typed"
      [] call.action \in {"get_elements", "wait_for", "exists"} -> "Found"
      [] call.action = "long_press" -> "Pressed"
      [] OTHER -> "Completed"

\* the inbox landmark, when the executor saw it on the screen after the action
LandmarkNote == " | Landmark: Search box of the inbox"

ReportedOutcome(call, ok, landmark) ==
    call.name \o "." \o call.action \o " | Status: "
        \o (IF ok THEN "SUCCESS" ELSE "FAILED") \o " | Message: "
        \o (IF ok THEN OutcomeWord(call) ELSE "Could not do") \o ": "
        \o call.description
        \o (IF landmark THEN LandmarkNote ELSE "")

ReportedResults(call) ==
    { ReportedOutcome(call, ok, landmark) : ok \in BOOLEAN, landmark \in BOOLEAN }

ReportedTexts == UNION { ReportedResults(call) : call \in PlannedCalls }

\* a report worded as the planner announces the advance from the Name step
\* (the wording evaluate_node looks for); evaluate_node reads the last
\* ToolMessage without relating it to the planned call, so the report may
\* answer any request
AnnouncedNameNext ==
    "mobile_ui.next_button | Status: SUCCESS | Message: Clicked: "
        \o "Next after names (COMP.PY SUCCESS)"

MisplacedReports == { AnnouncedNameNext }

\* every ToolMessage content the model delivers to the evaluator
OutcomeTexts == ToolTexts \cup ReportedTexts \cup MisplacedReports

(***************************************************************************)
(* Substring tests of evaluate_node and its helpers, tabulated once per    *)
(* outcome text.                                                           *)
(***************************************************************************)
success_keywords ==
    << "SUCCESS", "COMPLETED", "FOUND", "CLICKED", "TYPED", "EXISTS", "PRESSED" >>
failure_keywords ==
    << "FAILED", "ERROR", "TIMEOUT", "NOT FOUND", "EXCEPTION" >>

Range(seq) == { seq[i] : i \in 1..Len(seq) }

LowerKeywords ==
    { "search", "inbox", "clicked", "create", "typed", "email", "next", "password",
      "open day dropdown", "day dropdown", "select day", "day", "select",
      "open month dropdown", "month dropdown", "select month", "month",
      "type year", "year", "transition_to_name", "all details complete",
      "get edittext elements", "comp.py method", "elements", "first name",
      "element[0]", "comp.py", "last name", "element[1]", "comp.py fallback",
      "instance 1", "next after names", "comp.py success", "wait", "captcha",
      "long press", "15s", "auth", "fast path" }

\* the keywords of a set that occur in a text
Occurring(text, keywords) == { k \in keywords : contains(text, k) }

\* the pairs << text, keyword >> with  keyword in text.lower()
LowerTable ==
    UNION { { << p[1], k >> : k \in Occurring(p[2], LowerKeywords) } :
            p \in { << c, lower(c) >> : c \in OutcomeTexts } }

\* the pairs << text, keyword >> with  keyword in text.upper()
UpperTable ==
    UNION { { << p[1], k >> :
                k \in Occurring(p[2],
                                Range(success_keywords) \cup Range(failure_keywords)) } :
            p \in { << c, upper(c) >> : c \in OutcomeTexts } }

\*  k in tool_content.lower()
InLower(k, c) ==
    IF c \in OutcomeTexts /\ k \in LowerKeywords THEN << c, k >> \in LowerTable
    ELSE contains(lower(c), k)

\*  k in tool_content.upper()
InUpper(k, c) ==
    IF c \in OutcomeTexts THEN << c, k >> \in UpperTable ELSE contains(upper(c), k)

\* tool_content.lower(), as the set of the evaluator's keywords that occur in it
Lowered(c) == { k \in LowerKeywords : << c, k >> \in LowerTable }

\* _analyze_tool_success
_analyze_tool_success(tool_content) ==
    Cardinality({ i \in 1..Len(success_keywords) : InUpper(success_keywords[i], tool_content) })
      > Cardinality({ i \in 1..Len(failure_keywords) : InUpper(failure_keywords[i], tool_content) })

\* _check_automation_success
_check_automation_success(tool_content) ==
    \/ (InLower("search", tool_content) /\ InLower("inbox", tool_content))
    \/ InLower("search", tool_content)

(***************************************************************************)
(* State updates of state.py.  A workflow position is the part of the      *)
(* state dict that evaluate_node reads and writes; tool_calls_made is the  *)
(* length of tool_call_history.                                            *)
(***************************************************************************)
Position(step, progress, fl, succ, errors, calls) ==
    [ current_step |-> step, progress_percentage |-> progress, flags |-> fl,
      success |-> succ, consecutive_errors |-> errors, tool_calls_made |-> calls ]

\* a set_current_step that starts the new step with all gates closed
set_current_step_reset(st, step, progress) ==
    [ st EXCEPT !.current_step = step, !.progress_percentage = progress,
                !.flags = [ f \in FlagNames |-> FALSE ] ]

\* set_current_step
set_current_step(st, step, progress) ==
    [ st EXCEPT !.current_step = step, !.progress_percentage = progress ]

\* an assignment that flips the flag instead of setting it
SetFlag_toggle(st, name) == [ st EXCEPT !.flags[name] = ~@ ]

SetFlag(st, name) == [ st EXCEPT !.flags[name] = TRUE ]

\* set_success that leaves the progress where it was
set_success_only(st) == [ st EXCEPT !.success = TRUE ]

\* set_success
set_success(st) == [ st EXCEPT !.success = TRUE, !.progress_percentage = 100 ]

\* add_tool_call_record
add_tool_call_record(st, ok) ==
    [ st EXCEPT !.tool_calls_made = @ + 1,
                !.consecutive_errors = IF ~ok THEN @ + 1 ELSE 0 ]

(***************************************************************************)
(* evaluate_node, lines 534-627: the transitions of a successful outcome,  *)
(* one operator per branch on current_step.                                *)
(***************************************************************************)
\* EvalWelcome that moves past the Email step
EvalWelcome_skip(st, content_l) ==
    IF "clicked" \in content_l \/ "create" \in content_l
    THEN set_current_step(st, PASSWORD, 25)
    ELSE st

EvalWelcome(st, content_l) ==
    IF "clicked" \in content_l \/ "create" \in content_l
    THEN set_current_step(st, EMAIL, 15)
    ELSE st

\* EvalEmail that advances as soon as the address is typed
EvalEmail_auto(st, content_l) ==
    IF "typed" \in content_l /\ "email" \in content_l
    THEN set_current_step(SetFlag(st, "email_typed"), PASSWORD, 25)
    ELSE IF st.flags["email_typed"] /\ "next" \in content_l
         THEN set_current_step(st, PASSWORD, 25)
    ELSE st

EvalEmail(st, content_l) ==
    IF "typed" \in content_l /\ "email" \in content_l THEN SetFlag(st, "email_typed")
    ELSE IF st.flags["email_typed"] /\ "next" \in content_l
         THEN set_current_step(st, PASSWORD, 25)
    ELSE st

\* EvalPassword that also opens the first gate of the Details step
EvalPassword_ahead(st, content_l) ==
    IF "typed" \in content_l /\ "password" \in content_l
    THEN SetFlag(SetFlag(st, "password_typed"), "details_day_selected")
    ELSE IF st.flags["password_typed"] /\ "next" \in content_l
         THEN set_current_step(st, DETAILS, 35)
    ELSE st

EvalPassword(st, content_l) ==
    IF "typed" \in content_l /\ "password" \in content_l THEN SetFlag(st, "password_typed")
    ELSE IF st.flags["password_typed"] /\ "next" \in content_l
         THEN set_current_step(st, DETAILS, 35)
    ELSE st

\* an EvalDetails whose every text with "day" opens both day gates
EvalDetails_two(st, content_l) ==
    IF "day" \in content_l
    THEN SetFlag(SetFlag(st, "details_day_selected"), "details_day_value_selected")
    ELSE IF ("select month" \in content_l \/ "month" \in content_l) /\ "select" \in content_l
    THEN SetFlag(st, "details_month_value_selected")
    ELSE IF ("type year" \in content_l \/ "year" \in content_l) /\ "typed" \in content_l
    THEN SetFlag(st, "details_year_typed")
    ELSE st

EvalDetails(st, content_l) ==
    IF /\ ("open day dropdown" \in content_l \/ "day dropdown" \in content_l)
       /\ ~st.flags["details_day_selected"]
    THEN SetFlag(st, "details_day_selected")
    ELSE IF ("select day" \in content_l \/ "day" \in content_l) /\ "select" \in content_l
    THEN SetFlag(st, "details_day_value_selected")
    ELSE IF /\ ("open month dropdown" \in content_l \/ "month dropdown" \in content_l)
            /\ ~st.flags["details_month_selected"]
    THEN SetFlag(st, "details_month_selected")
    ELSE IF ("select month" \in content_l \/ "month" \in content_l) /\ "select" \in content_l
    THEN SetFlag(st, "details_month_value_selected")
    ELSE IF ("type year" \in content_l \/ "year" \in content_l) /\ "typed" \in content_l
    THEN SetFlag(st, "details_year_typed")
    ELSE IF "transition_to_name" \in content_l /\ "all details complete" \in content_l
    THEN set_current_step(st, NAME, 50)
    ELSE st

EvalName(st, content_l) ==
    IF /\ ("get edittext elements" \in content_l \/ "comp.py method" \in content_l)
       /\ "elements" \in content_l
    THEN SetFlag(st, "name_fields_accessed")
    ELSE IF \/ ("first name" \in content_l /\ "element[0]" \in content_l)
            \/ ("first name" \in content_l /\ "comp.py" \in content_l)
    THEN SetFlag(st, "first_name_typed")
    ELSE IF \/ ("last name" \in content_l /\ "element[1]" \in content_l)
            \/ ("last name" \in content_l /\ "comp.py" \in content_l)
    THEN SetFlag(st, "last_name_typed")
    ELSE IF "comp.py fallback" \in content_l /\ "instance 1" \in content_l
    THEN SetFlag(SetFlag(st, "name_fallback_tried"), "last_name_typed")
    ELSE IF "next after names" \in content_l /\ "comp.py success" \in content_l
    THEN set_current_step(st, CAPTCHA, 65)
    ELSE st

EvalCaptcha(st, content_l) ==
    IF "wait" \in content_l /\ "captcha" \in content_l
    THEN SetFlag(st, "captcha_button_found")
    ELSE IF ("long press" \in content_l \/ "15s" \in content_l) /\ "captcha" \in content_l
    THEN set_current_step(SetFlag(st, "captcha_pressed"), AUTH_WAIT, 75)
    ELSE st

\* EvalAuthWait with the milestone of an earlier step
EvalAuthWait_low(st, content_l) ==
    IF "auth" \in content_l THEN set_current_step(st, POST_AUTH, 60) ELSE st

EvalAuthWait(st, content_l) ==
    IF "auth" \in content_l THEN set_current_step(st, POST_AUTH, 80) ELSE st

EvalPostAuth_95(st, content_l) ==
    IF "fast path" \in content_l THEN set_current_step(st, VERIFY, 95) ELSE st

EvalPostAuth(st, content_l) ==
    IF "fast path" \in content_l THEN set_current_step(st, VERIFY, 90) ELSE st

EvalVerify(st, content_l) ==
    IF "inbox" \in content_l THEN set_current_step(st, CLEANUP, 100) ELSE st

\* the if/elif chain on current_step under  if success:
Transition(st, content_l) ==
    CASE st.current_step = WELCOME -> EvalWelcome(st, content_l)
      [] st.current_step = EMAIL -> EvalEmail(st, content_l)
      [] st.current_step = PASSWORD -> EvalPassword(st, content_l)
      [] st.current_step = DETAILS -> EvalDetails(st, content_l)
      [] st.current_step = NAME -> EvalName(st, content_l)
      [] st.current_step = CAPTCHA -> EvalCaptcha(st, content_l)
      [] st.current_step = AUTH_WAIT -> EvalAuthWait(st, content_l)
      [] st.current_step = POST_AUTH -> EvalPostAuth(st, content_l)
      [] st.current_step = VERIFY -> EvalVerify(st, content_l)
      [] OTHER -> st

\* the first statement of the  if success:  branch
ResetFailures(st) == [ st EXCEPT !.consecutive_errors = 0 ]

\* the else branch of  if success:  (the record already counted the failure)
CountFailure(st) == [ st EXCEPT !.consecutive_errors = @ + 1 ]

\* evaluate_node on a ToolMessage, after the record was added
Evaluated(recorded, ok, tool_content) ==
    IF _check_automation_success(tool_content) THEN set_success(recorded)
    ELSE IF ok THEN Transition(ResetFailures(recorded), Lowered(tool_content))
    ELSE CountFailure(recorded)

\* the state evaluate_node returns
Evaluate(st, message) ==
    IF st.current_step = ERROR \/ message.type # "tool" THEN st
    ELSE Evaluated(add_tool_call_record(st, _analyze_tool_success(message.content)),
                   _analyze_tool_success(message.content), message.content)

ErrorThreshold == 5

\* route_after_evaluation with the budget compared by > instead of >=
route_after_evaluation_gt(st, budget) ==
    IF st.success THEN "success"
    ELSE IF st.current_step = ERROR THEN "error"
    ELSE IF st.tool_calls_made > budget THEN "max_calls"
    ELSE IF st.consecutive_errors >= ErrorThreshold THEN "error"
    ELSE "continue"

\* route_after_evaluation
route_after_evaluation(st, budget) ==
    IF st.success THEN "success"
    ELSE IF st.current_step = ERROR THEN "error"
    ELSE IF st.tool_calls_made >= budget THEN "max_calls"
    ELSE IF st.consecutive_errors >= ErrorThreshold THEN "error"
    ELSE "continue"

\* the conditional edges of build_graph
RouteTarget(route) ==
    CASE route = "continue" -> "policy"
      [] route = "success" -> "cleanup"
      [] OTHER -> "error"

(***************************************************************************)
(* The run: create_initial_state and the nodes of the graph.               *)
(***************************************************************************)
\* the budgets a run is configured with, and for each the recursion limits:
\* one that leaves room for the whole budget, and one in the proportion of
\* the defaults (recursion_limit 150 for max_tool_calls 100)
Budgets == {1, 2, 3, MaxBudget}
RecursionLimits(budget) == { 3 * budget + 2, (3 * budget) \div 2 + 2 }

\* run() has not returned yet
NoSummary ==
    [ success |-> FALSE, error_message |-> "", progress_percentage |-> 0,
      current_step |-> INIT, tool_calls_made |-> 0 ]

\* get_state_summary; error_message "" stands for None
get_state_summary(step, progress, succ, calls, message) ==
    [ success |-> succ, error_message |-> message, progress_percentage |-> progress,
      current_step |-> step, tool_calls_made |-> calls ]

\* str(e) of the GraphRecursionError graph.invoke raises
RecursionErrorText(limit) ==
    "Recursion limit of " \o ToString(limit)
        \o " reached without hitting a stop condition."

\* the dict the except branch of run() returns
ExecutionFailed(e) ==
    [ success |-> FALSE, error_message |-> "WORKING NAME INPUT execution failed: " \o e,
      progress_percentage |-> 0, current_step |-> ERROR, tool_calls_made |-> 0 ]

\* start_automation has registered the automation and queued the workflow task
InitRun ==
    /\ node = "queued"
    /\ steps = 0
    /\ tools = FALSE
    /\ date_of_birth \in DateInputs
    /\ account_data = NoAccount
    /\ current_step = INIT
    /\ progress_percentage = 0
    /\ success = FALSE
    /\ flags = [ f \in FlagNames |-> FALSE ]
    /\ consecutive_errors = 0
    /\ tool_calls_made = 0
    /\ tool_faults = 0
    /\ error_message = ""
    /\ last_message = NoMessage
    /\ driver = "none"
    /\ summary = NoSummary
    /\ automation_status = "running"
    /\ cancelled = FALSE
    /\ use_llm \in BOOLEAN

\* the agent is created with one of the budgets the model draws from
InitGraph ==
    /\ max_tool_calls \in Budgets
    /\ recursion_limit \in RecursionLimits(max_tool_calls)
    /\ first_name \in FirstNames
    /\ last_name \in LastNames
    /\ InitRun

\* run() calls on one agent object: no call has started, self.tools is None
Runs == {1, 2}
NoDriver == 0
NotStarted ==
    [ pc |-> "initialize", driver |-> NoDriver, failed |-> FALSE, planned |-> FALSE,
      cycles |-> 0, used |-> {} ]
InitShared ==
    /\ runs = [ r \in Runs |-> NotStarted ]
    /\ self_tools = NoDriver

\* the adaptive planner of policy.py has not been asked
NoResponse == [ kind |-> "none", text |-> "" ]
NoAdvice == [ success |-> FALSE, action |-> "none" ]
InitAdviser ==
    /\ response = NoResponse
    /\ advice = NoAdvice

\* the bounded waits of auth_wait.py and post_auth.py have not been called
NoWait == [ pc |-> "idle", iterations |-> 0, i |-> 0, result |-> FALSE ]
NoNavigation ==
    [ pc |-> "idle", stage |-> 0, screen |-> "other", budget |-> 0, passes |-> 0,
      clicks |-> 0, probes |-> 0, seen |-> FALSE, result |-> FALSE ]
InitWaiters ==
    /\ waiter = NoWait
    /\ nav = NoNavigation

\* the variables of the studies beside the single run
shared_agent == << runs, self_tools >>
adviser == << response, advice >>
waits == << waiter, nav >>
others == << shared_agent, adviser, waits >>

Init == InitGraph /\ InitShared /\ InitAdviser /\ InitWaiters

Running == node \notin {"queued", "end", "done", "raised"} /\ steps < recursion_limit

inputs ==
    << max_tool_calls, recursion_limit, first_name, last_name, date_of_birth, use_llm >>

\* the entry of active_automations
automation == << automation_status, cancelled >>

\* the fields of the state dict
agent_state == << tools, account_data, current_step, progress_percentage, success,
                 flags, consecutive_errors, tool_calls_made, tool_faults,
                 error_message, last_message, driver >>

\* cancel_automation; the event loop serves it only while agent.run, a
\* blocking call of the workflow task, is not running
cancel_automation ==
    /\ node \in {"queued", "done", "raised"}
    /\ automation_status \notin {"completed", "failed", "cancelled"}
    /\ cancelled' = TRUE
    /\ automation_status' = "cancelled"
    /\ UNCHANGED << node, steps, inputs, others, agent_state, summary >>

\* run_automation_workflow up to the call of agent.run
run_automation_workflow ==
    /\ node = "queued"
    /\ automation_status' = "running"
    /\ node' = "initialize"
    /\ UNCHANGED << steps, inputs, others, agent_state, summary, cancelled >>

\* an initialize_node that goes on to the Welcome step without a driver
initialize_node_lenient ==
    /\ node = "initialize" /\ Running
    /\ \E created \in BOOLEAN :
         /\ account_data' =
                generate_outlook_account_data(first_name, last_name, date_of_birth)
         /\ driver' = IF created THEN "open" ELSE driver
         /\ tools' = created
         /\ current_step' = WELCOME
         /\ progress_percentage' = 10
         /\ last_message' = AIMessage(NoCall)
         /\ UNCHANGED error_message
    /\ node' = "policy"
    /\ steps' = steps + 1
    /\ UNCHANGED << inputs, others, summary, automation, success, flags, consecutive_errors,
                    tool_calls_made, tool_faults >>

\* initialize_node; created tells whether create_outlook_driver returned a driver
initialize_node ==
    /\ node = "initialize" /\ Running
    /\ \E created \in BOOLEAN :
         /\ account_data' =
                generate_outlook_account_data(first_name, last_name, date_of_birth)
         /\ IF created
            THEN /\ driver' = "open"
                 /\ tools' = TRUE
                 /\ current_step' = WELCOME
                 /\ progress_percentage' = 10
                 /\ last_message' = AIMessage(NoCall)
                 /\ UNCHANGED error_message
            ELSE /\ error_message' = "Initialization failed: Failed to create driver"
                 /\ current_step' = ERROR
                 /\ progress_percentage' = 5
                 /\ UNCHANGED << driver, tools, last_message >>
    /\ node' = "policy"
    /\ steps' = steps + 1
    /\ UNCHANGED << inputs, others, summary, automation, success, flags, consecutive_errors, tool_calls_made,
                    tool_faults >>

\* a policy node that lets the failures so far change the plan
policy_node_adaptive ==
    /\ node = "policy" /\ Running
    /\ IF current_step = ERROR
       THEN UNCHANGED << current_step, error_message, last_message >>
       ELSE IF tool_calls_made >= max_tool_calls
       THEN /\ error_message' = "Max tool calls reached"
            /\ current_step' = ERROR
            /\ UNCHANGED last_message
       ELSE /\ last_message' =
                  AIMessage(IF use_llm /\ consecutive_errors > 0
                            THEN _create_fallback_tool_call
                            ELSE _create_working_tool_call(current_step, flags,
                                                           account_data))
            /\ UNCHANGED << current_step, error_message >>
    /\ node' = "tools"
    /\ steps' = steps + 1
    /\ UNCHANGED << inputs, others, summary, automation, tools, account_data, progress_percentage, success, flags,
                    consecutive_errors, tool_calls_made, tool_faults, driver >>

\* policy_node
policy_node ==
    /\ node = "policy" /\ Running
    /\ IF current_step = ERROR
       THEN UNCHANGED << current_step, error_message, last_message >>
       ELSE IF tool_calls_made >= max_tool_calls
       THEN /\ error_message' = "Max tool calls reached"
            /\ current_step' = ERROR
            /\ UNCHANGED last_message
       ELSE /\ last_message' =
                  AIMessage(_create_working_tool_call(current_step, flags, account_data))
            /\ UNCHANGED << current_step, error_message >>
    /\ node' = "tools"
    /\ steps' = steps + 1
    /\ UNCHANGED << inputs, others, summary, automation, tools, account_data, progress_percentage, success, flags,
                    consecutive_errors, tool_calls_made, tool_faults, driver >>

\* the ToolNode runs the repository's tool for the call
RepositoryTools(call) == { ToolRun(call, how) : how \in ToolOutcomes(call) }

\* the ToolNode answers with the text of the repository's tool or with the
\* report of an executor as the specification describes it
AnyExecutor(call) ==
    RepositoryTools(call) \cup ReportedResults(call) \cup MisplacedReports

\* what the UI collaborator did when the tool did what the call asks for
SuccessfulOutcomes(call) == ToolOutcomes(call) \ { "fail", "raise", "no_text" }

\* the ToolNode runs the repository's tool and the tool succeeds
SuccessfulTools(call) == { ToolRun(call, how) : how \in SuccessfulOutcomes(call) }

\* the texts the ToolNode of a run may answer a call with
Answers(executor, call) ==
    IF executor = "repository" THEN RepositoryTools(call)
    ELSE IF executor = "successful" THEN SuccessfulTools(call)
    ELSE AnyExecutor(call)

\* tools_node
tools_node(executor) ==
    /\ node = "tools" /\ Running
    /\ IF ~tools /\ driver = "none"
       THEN /\ error_message' = "Tools not available"
            /\ UNCHANGED << last_message, tool_faults >>
       ELSE IF last_message.type = "ai" /\ last_message.call # NoCall
       THEN \/ /\ \E content \in Answers(executor, last_message.call) :
                     last_message' = ToolMessage(content)
               /\ UNCHANGED << error_message, tool_faults >>
            \/ /\ executor # "successful"
               /\ tool_faults < MaxToolFaults
               /\ tool_faults' = tool_faults + 1
               /\ error_message' = "Tool exec failed"
               /\ UNCHANGED last_message
       ELSE /\ error_message' = "Tool exec failed"
            /\ UNCHANGED << last_message, tool_faults >>
    /\ tools' = (tools \/ driver # "none")
    /\ node' = "evaluate"
    /\ steps' = steps + 1
    /\ UNCHANGED << inputs, others, summary, automation, account_data, current_step, progress_percentage, success,
                    flags, consecutive_errors, tool_calls_made, driver >>

\* evaluate_node followed by the conditional edge route_after_evaluation
evaluate_node ==
    /\ node = "evaluate" /\ Running
    /\ \E st \in { Evaluate(Position(current_step, progress_percentage, flags, success,
                                     consecutive_errors, tool_calls_made),
                            last_message) } :
         /\ current_step' = st.current_step
         /\ flags' = st.flags
         /\ progress_percentage' = st.progress_percentage
         /\ success' = st.success
         /\ consecutive_errors' = st.consecutive_errors
         /\ tool_calls_made' = st.tool_calls_made
         /\ node' = RouteTarget(route_after_evaluation(st, max_tool_calls))
    /\ steps' = steps + 1
    /\ UNCHANGED << inputs, others, summary, automation, tools, account_data, tool_faults, error_message,
                    last_message, driver >>

\* cleanup_node
cleanup_node ==
    /\ node = "cleanup" /\ Running
    /\ driver' = IF driver = "open" THEN "quit" ELSE driver
    /\ last_message' = AIMessage(NoCall)
    /\ node' = "end"
    /\ steps' = steps + 1
    /\ UNCHANGED << inputs, others, summary, automation, tools, account_data, current_step, progress_percentage,
                    success, flags, consecutive_errors, tool_calls_made, tool_faults,
                    error_message >>

\* error_node
error_node ==
    /\ node = "error" /\ Running
    /\ driver' = IF driver = "open" THEN "quit" ELSE driver
    /\ success' = FALSE
    /\ last_message' = AIMessage(NoCall)
    /\ node' = "end"
    /\ steps' = steps + 1
    /\ UNCHANGED << inputs, others, summary, automation, tools, account_data, current_step, progress_percentage,
                    flags, consecutive_errors, tool_calls_made, tool_faults,
                    error_message >>

\* graph.invoke raises GraphRecursionError once recursion_limit supersteps have
\* run without reaching END; run() catches it
GraphRecursion ==
    /\ node \notin {"queued", "end", "done", "raised"}
    /\ steps >= recursion_limit
    /\ node' = "raised"
    /\ summary' = ExecutionFailed(RecursionErrorText(recursion_limit))
    /\ automation_status' = IF summary'.success THEN "completed" ELSE "failed"
    /\ UNCHANGED << steps, inputs, others, agent_state, cancelled >>

\* graph.invoke returns the final state, run() returns its summary and
\* run_automation_workflow stores the result
run_returns ==
    /\ node = "end"
    /\ node' = "done"
    /\ summary' = get_state_summary(current_step, progress_percentage, success,
                                    tool_calls_made, error_message)
    /\ automation_status' = IF summary'.success THEN "completed" ELSE "failed"
    /\ UNCHANGED << steps, inputs, others, agent_state, cancelled >>

ToolsAnyExecutor == tools_node("any")
ToolsRepository == tools_node("repository")
ToolsSuccessful == tools_node("successful")

\* the run against either executor
Next ==
    \/ cancel_automation
    \/ run_automation_workflow
    \/ initialize_node
    \/ policy_node
    \/ ToolsAnyExecutor
    \/ evaluate_node
    \/ cleanup_node
    \/ error_node
    \/ GraphRecursion
    \/ run_returns

Spec == Init /\ [][Next]_vars

\* the run against the tools of src/tools; none of their texts carries the
\* inbox evidence, so the cleanup node is never entered
NextTools ==
    \/ cancel_automation
    \/ run_automation_workflow
    \/ initialize_node
    \/ policy_node
    \/ ToolsRepository
    \/ evaluate_node
    \/ error_node
    \/ GraphRecursion
    \/ run_returns

SpecTools == Init /\ [][NextTools]_vars

TypeOK ==
    /\ node \in {"queued", "initialize", "policy", "tools", "evaluate", "cleanup",
                 "error", "end", "done", "raised"}
    /\ steps \in 0..recursion_limit
    /\ current_step \in Range(WorkflowStep)
    /\ progress_percentage \in 0..100
    /\ success \in BOOLEAN
    /\ flags \in [FlagNames -> BOOLEAN]
    /\ tool_calls_made \in 0..max_tool_calls
    /\ last_message.type \in {"none", "ai", "tool"}
    /\ last_message.type = "tool" => last_message.content \in OutcomeTexts
    /\ driver \in {"none", "open", "quit"}
    /\ automation_status \in {"running", "cancelled", "completed", "failed"}
    /\ cancelled \in BOOLEAN
    /\ summary.current_step \in Range(WorkflowStep)

(***************************************************************************)
(* Properties.                                                             *)
(***************************************************************************)
\* the run was sent to the error node by the consecutive-failure rule
RoutedByErrors ==
    /\ node = "error"
    /\ current_step # ERROR
    /\ tool_calls_made < max_tool_calls

\* the run was sent to the error node by the budget rule
RoutedByBudget ==
    /\ node = "error"
    /\ current_step # ERROR
    /\ tool_calls_made >= max_tool_calls

\* C1: the consecutive-failure count never exceeds 5, and a run is sent to the
\* error node by the consecutive-failure rule exactly when the count is 5
C1_ErrorExactlyAtFive ==
    /\ consecutive_errors <= ErrorThreshold
    /\ RoutedByErrors => consecutive_errors = ErrorThreshold

\* C2: the number of recorded tool calls never exceeds the budget, the loop
\* goes on only below the budget, and a run whose outcomes were successful is
\* sent to the error node with exactly max_tool_calls recorded calls
C2_BudgetExact ==
    /\ tool_calls_made <= max_tool_calls
    /\ (node \in {"policy", "tools", "evaluate"} /\ current_step # ERROR)
          => tool_calls_made < max_tool_calls
    /\ (tool_calls_made = max_tool_calls /\ ~success)
          => node \in {"error", "end", "done", "raised"}
    /\ (node = "error" /\ current_step # ERROR /\ consecutive_errors = 0)
          => tool_calls_made = max_tool_calls

C2_Witness ==
    /\ RoutedByBudget
    /\ ~success
    /\ consecutive_errors = 0
    /\ max_tool_calls > 1
    /\ tool_calls_made = max_tool_calls

\* C3: progress_percentage never decreases
C3_ProgressMonotonic ==
    [][progress_percentage' >= progress_percentage]_vars

C3_Witness ==
    /\ current_step = CLEANUP
    /\ progress_percentage = 100
    /\ ~success

\* an evaluate_node step that evaluates the ToolMessage of the tools node
Evaluating ==
    /\ node = "evaluate"
    /\ steps' = steps + 1
    /\ current_step # ERROR
    /\ last_message.type = "tool"

\* the step a gate flag belongs to (the step whose transitions set it)
FlagStep(f) ==
    CASE f = "email_typed" -> EMAIL
      [] f = "password_typed" -> PASSWORD
      [] f \in { "details_day_selected", "details_day_value_selected",
                 "details_month_selected", "details_month_value_selected",
                 "details_year_typed" } -> DETAILS
      [] f \in { "name_fields_accessed", "first_name_typed", "last_name_typed",
                 "name_fallback_tried" } -> NAME
      [] f \in { "captcha_button_found", "captcha_pressed" } -> CAPTCHA
      [] f = "auth_completed" -> AUTH_WAIT
      [] OTHER -> VERIFY

\* C4: no gate flag of a later step is true while an earlier step is current
C4_OrderingInvariant ==
    \A f \in FlagNames :
        flags[f] => StepIndex(current_step) >= StepIndex(FlagStep(f))

C4_Witness ==
    /\ current_step = PASSWORD
    /\ flags["email_typed"]
    /\ flags["password_typed"]
    /\ \A f \in FlagNames : StepIndex(FlagStep(f)) > StepIndex(PASSWORD) => ~flags[f]

Planned == node = "tools" /\ last_message.type = "ai" /\ last_message.call # NoCall

\* flags differ at most in the flag named
OnlyFlag(name) == \A f \in FlagNames \ {name} : flags'[f] = flags[f]

\* C6: at Email (Password) the planner asks to type the username (password)
\* while the typed flag is false and to click Next afterwards; an evaluate
\* cycle that sets the typed flag leaves current_step alone; the step is left
\* only for its successor, with the typed flag already set, by an outcome
\* with "next", and Email -> Password sets progress 25
C6_TwoPhase ==
    /\ [](Planned /\ current_step = EMAIL =>
            IF flags["email_typed"] THEN last_message.call.action = "next_button"
            ELSE /\ last_message.call.action = "type"
                 /\ last_message.call.text = account_data.username)
    /\ [](Planned /\ current_step = PASSWORD =>
            IF flags["password_typed"] THEN last_message.call.action = "next_button"
            ELSE /\ last_message.call.action = "type"
                 /\ last_message.call.text = account_data.password)
    /\ [][ /\ (current_step = EMAIL /\ flags'["email_typed"] # flags["email_typed"])
               => current_step' = EMAIL /\ OnlyFlag("email_typed")
           /\ (current_step = EMAIL /\ current_step' \notin {EMAIL, ERROR})
               => /\ current_step' = PASSWORD
                  /\ progress_percentage' = 25
                  /\ flags["email_typed"]
                  /\ flags' = flags
                  /\ Evaluating
                  /\ InLower("next", last_message.content)
           /\ (current_step = PASSWORD /\ flags'["password_typed"] # flags["password_typed"])
               => current_step' = PASSWORD /\ OnlyFlag("password_typed")
           /\ (current_step = PASSWORD /\ current_step' \notin {PASSWORD, ERROR})
               => /\ current_step' = DETAILS
                  /\ flags["password_typed"]
                  /\ flags' = flags
                  /\ Evaluating
                  /\ InLower("next", last_message.content)
         ]_vars

C6_Witness ==
    /\ current_step = PASSWORD
    /\ progress_percentage = 25
    /\ flags["email_typed"]
    /\ ~flags["password_typed"]
    /\ Planned

\* the action for the earliest false gate of the Details step
EarliestGate(fl, acc) ==
    IF ~fl["details_day_selected"] THEN CallDayDropdown
    ELSE IF ~fl["details_day_value_selected"] THEN CallDayValue(acc)
    ELSE IF ~fl["details_month_selected"] THEN CallMonthDropdown
    ELSE IF ~fl["details_month_value_selected"] THEN CallMonthValue(acc)
    ELSE IF ~fl["details_year_typed"] THEN CallYearType(acc)
    ELSE CallDetailsTransition

\* C7: at Details the planner asks for the earliest false gate in the order
\* open-day, select-day, open-month, select-month, type-year, Next; the year
\* is never asked for while a day or month gate is false; each gate flag
\* implies the one before it
C7_DetailsGateOrder ==
    /\ (Planned /\ current_step = DETAILS) =>
          /\ last_message.call = EarliestGate(flags, account_data)
          /\ last_message.call = CallYearType(account_data) =>
                /\ flags["details_day_selected"]
                /\ flags["details_day_value_selected"]
                /\ flags["details_month_selected"]
                /\ flags["details_month_value_selected"]
    /\ flags["details_year_typed"] => flags["details_month_value_selected"]
    /\ flags["details_month_value_selected"] => flags["details_month_selected"]
    /\ flags["details_month_selected"] => flags["details_day_value_selected"]
    /\ flags["details_day_value_selected"] => flags["details_day_selected"]

C7_Witness ==
    /\ Planned
    /\ current_step = DETAILS
    /\ last_message.call = CallYearType(account_data)

\* every gate of the Details step is satisfied
DetailsGates ==
    /\ flags["details_day_selected"]
    /\ flags["details_day_value_selected"]
    /\ flags["details_month_selected"]
    /\ flags["details_month_value_selected"]
    /\ flags["details_year_typed"]

\* C8: with every Details gate satisfied, evaluating the text the mobile_ui
\* tool returns for the successful Next click moves Details to Name
C8_DetailsNextAdvances ==
    [][ (/\ Evaluating
         /\ current_step = DETAILS
         /\ DetailsGates
         /\ last_message.content = MobileUIRun(CallDetailsTransition, "ok"))
        => current_step' = NAME ]_vars

\* C9: current_step stays, moves to the immediate successor in the fixed
\* sequence, or goes to Error
C9_ForwardOnly ==
    [][ \/ current_step' = current_step
        \/ current_step' = ERROR
        \/ /\ current_step # ERROR
           /\ StepIndex(current_step') = StepIndex(current_step) + 1 ]_vars

C9_Witness ==
    /\ current_step = VERIFY
    /\ progress_percentage = 90
    /\ node = "policy"

C14_EndsWithinBudget ==
    node \in {"done", "raised"}
        => /\ node = "done"
           /\ steps <= 3 * max_tool_calls + 2

\* create_outlook_driver returned no driver
SetupFailed == driver = "none" /\ node \notin {"queued", "initialize"}

\* C15: after a failed driver creation the state is Error, no tool request is
\* planned, executed or recorded, the summary run() returns says so, and
\* initialize_node runs only once, at the start of the workflow
C15_SetupFailureFatal ==
    [][ /\ SetupFailed'
           => /\ current_step' = ERROR
              /\ tool_calls_made' = 0
              /\ last_message'.type # "tool"
              /\ last_message'.call = NoCall
              /\ ~success'
              /\ node' \in {"done", "raised"}
                    => /\ summary'.current_step = ERROR
                       /\ summary'.tool_calls_made = 0
                       /\ ~summary'.success
        /\ node' = "initialize" => node = "queued"
      ]_vars

C15_Witness ==
    /\ SetupFailed
    /\ node = "done"
    /\ summary.current_step = ERROR
    /\ summary.error_message = "Tools not available"

\* run() has returned its summary
Returned == node \in {"done", "raised"}

\* C16: the summary of a run that ended without success carries an
\* error_message that is not empty
C16_FailureHasMessage ==
    (Returned /\ ~summary.success) => summary.error_message # ""

\* the run went through the error node because the budget was used up
EndedByBudget ==
    /\ node = "done"
    /\ ~success
    /\ current_step # ERROR
    /\ tool_calls_made >= max_tool_calls

\* the run went through the error node because of consecutive failures
EndedByErrors ==
    /\ node = "done"
    /\ ~success
    /\ current_step # ERROR
    /\ tool_calls_made < max_tool_calls

\* C17: the summary of a run ended by the budget carries the budget message
\* of policy_node, and the summary of a run ended by consecutive failures
\* does not
C17_CausesDistinguished ==
    /\ EndedByBudget => summary.error_message = "Max tool calls reached"
    /\ EndedByErrors => summary.error_message # "Max tool calls reached"

\* C18: when run() has returned, a driver that was created has been quit
C18_SessionReleased ==
    Returned => driver # "open"

\* C19: the summary of a run that ended without success reports the
\* progress_percentage and the current_step the state reached
C19_FailureReportsProgress ==
    (Returned /\ ~summary.success)
        => /\ summary.progress_percentage = progress_percentage
           /\ summary.current_step = current_step

\* C20: once the cancelled flag of the automation is set, policy_node plans
\* no tool request any more
C20_CancelStopsPlanning ==
    [][ (cancelled /\ node = "policy") => ~Planned' ]_vars

(***************************************************************************)
(* Two run() calls on one WorkingNameInputAgent object.  Each call has its *)
(* own graph state (and so its own driver); self.tools is an attribute of  *)
(* the agent, written by initialize_node and read by tools_node.  A driver *)
(* is named after the call that created it.                                *)
(***************************************************************************)
MaxCycles == 2

\* the variables of the single run
single_run == << node, steps, inputs, agent_state, summary, automation >>

\* initialize_node of call r: self.tools = ToolNode(create_tool_list(driver))
shared_initialize_node(r) ==
    /\ runs[r].pc = "initialize"
    /\ \E created \in BOOLEAN :
         /\ runs' = [ runs EXCEPT ![r].pc = "policy",
                                  ![r].driver = IF created THEN r ELSE NoDriver,
                                  ![r].failed = ~created ]
         /\ self_tools' = IF created THEN r ELSE self_tools
    /\ UNCHANGED << single_run, adviser, waits >>

\* policy_node of call r: returns at once when current_step is ERROR
shared_policy_node(r) ==
    /\ runs[r].pc = "policy"
    /\ runs' = [ runs EXCEPT ![r].pc = "tools", ![r].planned = ~runs[r].failed ]
    /\ UNCHANGED << single_run, self_tools, adviser, waits >>

\* the driver behind self.tools when tools_node of a call invokes it
ToolsDriver(bound, own) ==
    IF bound = NoDriver /\ own # NoDriver THEN own ELSE bound

\* tools_node of call r: the planned request runs on the tools of self.tools
shared_tools_node(r) ==
    /\ runs[r].pc = "tools"
    /\ self_tools' = ToolsDriver(self_tools, runs[r].driver)
    /\ runs' = [ runs EXCEPT
                   ![r].pc = "evaluate",
                   ![r].used = IF runs[r].planned /\ self_tools' # NoDriver
                               THEN @ \cup { self_tools' } ELSE @ ]
    /\ UNCHANGED << single_run, adviser, waits >>

\* evaluate_node and the routing of call r; the call ends after a failed
\* setup, on a verdict that ends the loop or with its cycles used up
shared_evaluate_node(r) ==
    /\ runs[r].pc = "evaluate"
    /\ \E goes_on \in BOOLEAN :
         runs' = [ runs EXCEPT
                     ![r].planned = FALSE,
                     ![r].cycles = IF runs[r].failed THEN @ ELSE @ + 1,
                     ![r].pc = IF \/ runs[r].failed
                                  \/ ~goes_on
                                  \/ runs[r].cycles + 1 >= MaxCycles
                               THEN "end" ELSE "policy" ]
    /\ UNCHANGED << single_run, self_tools, adviser, waits >>

SharedInitialize == \E r \in Runs : shared_initialize_node(r)
SharedPolicy == \E r \in Runs : shared_policy_node(r)
SharedTools == \E r \in Runs : shared_tools_node(r)
SharedEvaluate == \E r \in Runs : shared_evaluate_node(r)

NextShared ==
    \/ SharedInitialize
    \/ SharedPolicy
    \/ SharedTools
    \/ SharedEvaluate

\* the single run stays queued with the smallest budget
InitSharedAgent ==
    /\ Init
    /\ max_tool_calls = 1
    /\ recursion_limit = 5
    /\ use_llm

SpecShared == InitSharedAgent /\ [][NextShared]_vars

\* C21: every tool request of a call is executed against the driver this
\* call created in its own initialize_node
C21_SessionNotShared ==
    \A r \in Runs : runs[r].used \subseteq { runs[r].driver }

\* a step of policy_node that has a plan to make
Planning == node = "policy" /\ steps' = steps + 1 /\ current_step # ERROR

\* C22: with use_llm, a policy_node step taken with two or more consecutive
\* failures asks the adaptive planner; its advice abort puts the run into
\* Error and its advice skip moves the run to the next step
C22_EscalatesToPlanner ==
    [][ (Planning /\ use_llm /\ consecutive_errors >= 2)
        => /\ advice' # NoAdvice
           /\ advice'.action = "abort" => current_step' = ERROR
           /\ advice'.action = "skip"
                 => StepIndex(current_step') = StepIndex(current_step) + 1 ]_vars

(***************************************************************************)
(* The adaptive planner of policy.py: analyze_error_and_suggest_action     *)
(* over the answers of llm_client.generate_response.                       *)
(***************************************************************************)
\* analyses the LLM may write
Openers ==
    { "", "The element was not found. ", "The screen did not change. ",
      "This looks like a temporary UI issue. ", "A CRITICAL dialog blocks the flow. " }
Verdicts ==
    { "Retry the same action.", "Wait and try again.", "Abort the run.",
      "Stop here.", "Use OCR to reassess.", "Try an alternative approach." }
AnalysisTexts == { o \o v : o \in Openers, v \in Verdicts }

\* generate_response raises, reports a failure, or returns an analysis
Responses ==
    { [ kind |-> "raise", text |-> "" ], [ kind |-> "failure", text |-> "" ] }
        \cup { [ kind |-> "success", text |-> t ] : t \in AnalysisTexts }

\* self.llm_client = get_llm_client(provider) if use_llm else None
LlmClient(use) == use

AbortWords == { "abort", "stop", "critical", "fatal" }
ReassessWords == { "ocr", "screen", "assess", "understand" }
AlternativeWords == { "alternative", "different", "fallback" }

\* the action parsed from the analysis text
ParsedAction(analysis_l) ==
    IF \E w \in AbortWords : contains(analysis_l, w) THEN "abort"
    ELSE IF \E w \in ReassessWords : contains(analysis_l, w) THEN "ocr_reassess"
    ELSE IF \E w \in AlternativeWords : contains(analysis_l, w) THEN "try_alternative"
    ELSE "retry"

\* analyze_error_and_suggest_action
analyze_error_and_suggest_action(use, client, resp) ==
    IF ~use \/ ~client THEN [ success |-> FALSE, action |-> "continue" ]
    ELSE IF resp.kind = "raise" THEN [ success |-> FALSE, action |-> "retry" ]
    ELSE IF resp.kind = "failure" THEN [ success |-> FALSE, action |-> "retry" ]
    ELSE [ success |-> TRUE, action |-> ParsedAction(lower(resp.text)) ]

\* a caller asks the adaptive planner once
AskAdviser ==
    /\ advice = NoAdvice
    /\ advice' = analyze_error_and_suggest_action(use_llm, LlmClient(use_llm), response)
    /\ UNCHANGED << single_run, shared_agent, response, waits >>

NextAdvice == AskAdviser

InitAdvice ==
    /\ InitGraph
    /\ max_tool_calls = 1
    /\ recursion_limit = 5
    /\ InitShared
    /\ response \in Responses
    /\ advice = NoAdvice
    /\ InitWaiters

SpecAdvice == InitAdvice /\ [][NextAdvice]_vars

\* C23: the advice is retry when use_llm is off or there is no client, when
\* the LLM call reports a failure and when it raises, and the advised action
\* is always one of retry, skip, abort
C23_DegradesToRetry ==
    advice # NoAdvice
        => /\ advice.action \in { "retry", "skip", "abort" }
           /\ (\/ ~use_llm
               \/ ~LlmClient(use_llm)
               \/ response.kind \in { "raise", "failure" })
                 => advice.action = "retry"

\* current_step changes to a step other than Error
StepEntered == current_step' # current_step /\ current_step' # ERROR

\* C24: entering a step sets progress_percentage to the milestone of the
\* step: Welcome 10..15, Email 25, Password 35, Details 50, Name 65,
\* Captcha 75, AuthWait 85, PostAuth 90, Verify 95, Cleanup 100
C24_MilestonesAsStated ==
    [][ StepEntered
        => progress_percentage' \in
             CASE current_step' = INIT -> {5}
               [] current_step' = WELCOME -> 10..15
               [] current_step' = EMAIL -> {25}
               [] current_step' = PASSWORD -> {35}
               [] current_step' = DETAILS -> {50}
               [] current_step' = NAME -> {65}
               [] current_step' = CAPTCHA -> {75}
               [] current_step' = AUTH_WAIT -> {85}
               [] current_step' = POST_AUTH -> {90}
               [] current_step' = VERIFY -> {95}
               [] OTHER -> {100} ]_vars

\* C24 as the code has it: entering a step sets progress_percentage to
\* Welcome 10, Email 15, Password 25, Details 35, Name 50, Captcha 65,
\* AuthWait 75, PostAuth 80, Verify 90, Cleanup 100
C24_Milestones ==
    [][ StepEntered
        => progress_percentage' =
             CASE current_step' = INIT -> 5
               [] current_step' = WELCOME -> 10
               [] current_step' = EMAIL -> 15
               [] current_step' = PASSWORD -> 25
               [] current_step' = DETAILS -> 35
               [] current_step' = NAME -> 50
               [] current_step' = CAPTCHA -> 65
               [] current_step' = AUTH_WAIT -> 75
               [] current_step' = POST_AUTH -> 80
               [] current_step' = VERIFY -> 90
               [] OTHER -> 100 ]_vars

C24_Witness ==
    /\ current_step = VERIFY
    /\ progress_percentage = 90
    /\ node = "tools"
    /\ Planned

\* the workflow position after the step being taken
After ==
    Position(current_step', progress_percentage', flags', success',
             consecutive_errors', tool_calls_made')

\* evaluate_node evaluates a successful outcome of a type request at the
\* Email, Password or Details step
TypedOutcome ==
    /\ Evaluating
    /\ current_step \in { EMAIL, PASSWORD, DETAILS }
    /\ _analyze_tool_success(last_message.content)
    /\ "typed" \in Lowered(last_message.content)

\* C25: evaluating the same successful type outcome once more right after
\* it was evaluated changes nothing but the number of recorded tool calls
C25_DuplicateTypeIdempotent ==
    [][ TypedOutcome
        => Evaluate(After, last_message) = [ After EXCEPT !.tool_calls_made = @ + 1 ]
      ]_vars

C25_Witness ==
    /\ node = "policy"
    /\ current_step = DETAILS
    /\ flags["details_year_typed"]
    /\ last_message.type = "tool"
    /\ "typed" \in Lowered(last_message.content)

\* C26: a gate flag that is true stays true in every later state
C26_FlagsPersist ==
    [][ \A f \in FlagNames : flags[f] => flags'[f] ]_vars

C26_Witness ==
    /\ current_step = CAPTCHA
    /\ flags["email_typed"]
    /\ flags["password_typed"]
    /\ flags["details_year_typed"]
    /\ consecutive_errors > 0

\* the gate flags the step being taken turns from false to true
Opened == { f \in FlagNames : ~flags[f] /\ flags'[f] }

\* C27: one evaluated outcome turns at most one gate flag from false to true
C27_OneGatePerOutcome ==
    [][ Cardinality(Opened) <= 1 ]_vars

C27_Witness ==
    /\ node = "policy"
    /\ current_step = NAME
    /\ last_message.type = "tool"
    /\ _analyze_tool_success(last_message.content)
    /\ { "comp.py fallback", "instance 1" } \subseteq Lowered(last_message.content)
    /\ flags["last_name_typed"]
    /\ ~flags["name_fallback_tried"]

(***************************************************************************)
(* The bounded waits: AuthenticationWaiter.ui_wait_progress_gone and       *)
(* PostAuthNavigator.post_auth_fast_path, one call of either at a time.    *)
(* The device is the environment: what a lookup finds is an input of the   *)
(* step that looks.                                                        *)
(***************************************************************************)
MaxIterations == 3
MaxPasses == 2

\* iterations = int(max_seconds / check_interval)
WaitIterations(max_seconds, check_interval) == max_seconds \div check_interval
CheckInterval == 2
MaxSecondsInputs == { CheckInterval * n : n \in 0..MaxIterations }

\* one pass of the for loop of ui_wait_progress_gone: the lookup finds no
\* visible progress bar, finds some, or raises
wait_check ==
    /\ waiter.pc = "polling"
    /\ waiter.i < waiter.iterations
    /\ \E bars \in { "gone", "visible", "error" } :
         waiter' = IF bars = "gone"
                   THEN [ waiter EXCEPT !.pc = "returned", !.result = TRUE ]
                   ELSE [ waiter EXCEPT !.i = @ + 1 ]
    /\ UNCHANGED << single_run, shared_agent, adviser, nav >>

\* the for loop of ui_wait_progress_gone is exhausted
wait_timeout ==
    /\ waiter.pc = "polling"
    /\ waiter.i >= waiter.iterations
    /\ waiter' = [ waiter EXCEPT !.pc = "returned", !.result = TRUE ]
    /\ UNCHANGED << single_run, shared_agent, adviser, nav >>

\* what the device shows: one of the dialogs, the inbox, or something else
Screens == { "maybe_later", "next", "accept", "continue", "skip", "other", "inbox" }

\* the button sets post_auth_fast_path tries in order, each followed by a
\* probe for the inbox; the skip set comes last and has no probe
Dismissals == << "maybe_later", "next", "accept", "continue" >>

\* the statement after stage k of a pass
NextStage(n, k) ==
    IF k < Len(Dismissals) THEN [ n EXCEPT !.pc = "click", !.stage = k + 1 ]
    ELSE [ n EXCEPT !.pc = "skip" ]

\* the test of the while loop: time is left for another pass or not
nav_while ==
    /\ nav.pc = "while"
    /\ nav' = IF nav.passes < nav.budget
              THEN [ nav EXCEPT !.pc = "probe", !.stage = 0, !.passes = @ + 1 ]
              ELSE [ nav EXCEPT !.pc = "final" ]
    /\ UNCHANGED << single_run, shared_agent, adviser, waiter >>

\* inbox_reached() at the top of a pass (stage 0) or after a dismissal
inbox_reached ==
    /\ nav.pc = "probe"
    /\ nav' = IF nav.screen = "inbox"
              THEN [ nav EXCEPT !.pc = "returned", !.probes = @ + 1, !.seen = TRUE,
                                !.result = TRUE ]
              ELSE NextStage([ nav EXCEPT !.probes = @ + 1 ], nav.stage)
    /\ UNCHANGED << single_run, shared_agent, adviser, waiter >>

\* quick_click on the button set of the stage: the button is there and the
\* click goes through (the device then shows any screen), or nothing is clicked
quick_click ==
    /\ nav.pc = "click"
    /\ \/ /\ nav.screen = Dismissals[nav.stage]
          /\ \E shown \in Screens :
               nav' = [ nav EXCEPT !.pc = "probe", !.clicks = @ + 1, !.screen = shown ]
       \/ nav' = NextStage(nav, nav.stage)
    /\ UNCHANGED << single_run, shared_agent, adviser, waiter >>

\* quick_click on the skip set and the pause that ends the pass; the device
\* may show another screen after the click or the pause
nav_skip ==
    /\ nav.pc = "skip"
    /\ \E shown \in Screens :
         \/ /\ nav.screen = "skip"
            /\ nav' = [ nav EXCEPT !.pc = "while", !.clicks = @ + 1, !.screen = shown ]
         \/ nav' = [ nav EXCEPT !.pc = "while", !.screen = shown ]
    /\ UNCHANGED << single_run, shared_agent, adviser, waiter >>

\* a final check that fails the call when the inbox is not there
nav_final_strict ==
    /\ nav.pc = "final"
    /\ nav' = [ nav EXCEPT !.pc = "returned", !.probes = @ + 1,
                           !.seen = (nav.screen = "inbox"),
                           !.result = (nav.screen = "inbox") ]
    /\ UNCHANGED << single_run, shared_agent, adviser, waiter >>

\* the final inbox check and the return after the loop
nav_final ==
    /\ nav.pc = "final"
    /\ nav' = [ nav EXCEPT !.pc = "returned", !.probes = @ + 1,
                           !.seen = (nav.screen = "inbox"), !.result = TRUE ]
    /\ UNCHANGED << single_run, shared_agent, adviser, waiter >>

NextWaits ==
    \/ wait_check
    \/ wait_timeout
    \/ nav_while
    \/ inbox_reached
    \/ quick_click
    \/ nav_skip
    \/ nav_final

\* one of the two functions is called
InitWaits ==
    /\ InitGraph
    /\ max_tool_calls = 1
    /\ recursion_limit = 5
    /\ use_llm
    /\ InitShared
    /\ InitAdviser
    /\ \/ /\ \E max_seconds \in MaxSecondsInputs :
                 waiter = [ NoWait EXCEPT
                              !.pc = "polling",
                              !.iterations = WaitIterations(max_seconds, CheckInterval) ]
          /\ nav = NoNavigation
       \/ /\ waiter = NoWait
          /\ \E shown \in Screens, budget \in 0..MaxPasses :
                 nav = [ NoNavigation EXCEPT !.pc = "while", !.screen = shown,
                                             !.budget = budget ]

SpecWaits == InitWaits /\ [][NextWaits]_vars

\* C28: both functions return True on every path; post_auth_fast_path
\* probes for the inbox before its first click and right after each
\* maybe-later, next, accept and continue click, and clicks nothing once a
\* probe has seen the inbox
C28_WaitsDegradeToSuccess ==
    [][ /\ waiter'.pc = "returned" => waiter'.result
        /\ nav'.pc = "returned" => nav'.result
        /\ nav'.clicks > nav.clicks => (~nav.seen /\ nav.probes > 0)
        /\ (nav'.clicks > nav.clicks /\ nav.pc = "click")
              => (nav'.pc = "probe" /\ nav'.stage = nav.stage)
      ]_vars

C28_Witness ==
    /\ nav.pc = "returned"
    /\ nav.result
    /\ ~nav.seen
    /\ nav.passes = MaxPasses
    /\ nav.clicks > 1

\* an evaluate_node step that counts the outcome as a failure and leaves the
\* count below the threshold
FailedBelowThreshold ==
    /\ node = "evaluate"
    /\ steps' = steps + 1
    /\ consecutive_errors' > consecutive_errors
    /\ consecutive_errors' < ErrorThreshold

NextHappy ==
    \/ cancel_automation
    \/ run_automation_workflow
    \/ initialize_node
    \/ policy_node
    \/ ToolsSuccessful
    \/ evaluate_node
    \/ error_node
    \/ GraphRecursion
    \/ run_returns

SpecHappy == Init /\ [][NextHappy]_vars

\* the run was given the largest budget and a recursion limit that covers it
AmpleBudget ==
    /\ max_tool_calls = MaxBudget
    /\ recursion_limit = 3 * max_tool_calls + 2

\* C30: a run that reached Welcome, was given an ample budget and whose
\* planned actions all succeed in the tools of src/tools ends with
\* success = TRUE (every run ends, so "the run ends with success" fails
\* exactly when a run is over without success)
C30_HappyPathSucceeds ==
    (Returned /\ driver # "none" /\ AmpleBudget) => success

\* evaluate_node is given the text the repository's tool returns when the
\* UiSelector fallback typing of the last name succeeded, in the Name step
\* with the elements read and both names typed
FallbackTyped ==
    /\ node = "evaluate"
    /\ steps' = steps + 1
    /\ current_step = NAME
    /\ flags["name_fields_accessed"]
    /\ flags["first_name_typed"]
    /\ flags["last_name_typed"]
    /\ ~flags["name_fallback_tried"]
    /\ last_message.type = "tool"
    /\ last_message.content \in SuccessfulTools(CallLastNameFallback(account_data))

DefaultMaxToolCalls == 100
DefaultRecursionLimit == 150

InitDefaults ==
    /\ max_tool_calls = DefaultMaxToolCalls
    /\ recursion_limit = DefaultRecursionLimit
    /\ first_name \in FirstNames
    /\ last_name \in LastNames
    /\ InitRun
    /\ InitShared
    /\ InitAdviser
    /\ InitWaiters

SpecDefaults == InitDefaults /\ [][NextTools]_vars

\* C32: with max_tool_calls = 100 and recursion_limit = 150 the graph's
\* recursion limit is not hit before 100 tool calls have been recorded: a
\* run ends by GraphRecursionError only with the budget used up
C32_LimitNotHitBeforeBudget ==
    node = "raised" => tool_calls_made >= DefaultMaxToolCalls

\* initialize_node failed: its except branch wrote the message and the step
InitializationFailed ==
    /\ current_step = ERROR
    /\ error_message = "Initialization failed: Failed to create driver"

\* C33: once initialize_node has set current_step to Error with the message
\* "Initialization failed: ...", the policy, tools, evaluate and error nodes
\* leave error_message unchanged, and the summary run() returns carries it
C33_InitFailureMessageKept ==
    [][ /\ (InitializationFailed /\ node \in {"policy", "tools", "evaluate", "error"})
            => error_message' = error_message
        /\ (InitializationFailed /\ node = "end")
            => summary'.error_message = error_message ]_vars

PayloadFirstNames == FirstNames \cup { "Search" }

InitPayload ==
    /\ max_tool_calls = MaxBudget
    /\ recursion_limit \in RecursionLimits(max_tool_calls)
    /\ first_name \in PayloadFirstNames
    /\ last_name \in LastNames
    /\ InitRun
    /\ InitShared
    /\ InitAdviser
    /\ InitWaiters

SpecPayload == InitPayload /\ [][Next]_vars

\* evaluate_node is given a text the repository's tool returns for the type
\* action planned in the Email, Password, Details or Name step
TypeOutcomeEvaluated ==
    /\ node = "evaluate"
    /\ steps' = steps + 1
    /\ current_step \in {EMAIL, PASSWORD, DETAILS, NAME}
    /\ last_message.type = "tool"
    /\ \E call \in { _create_working_tool_call(current_step, flags, account_data) } :
          /\ call.action \in {"type", "type_element_index"}
          /\ last_message.content \in RepositoryTools(call)

C36_CancelledIsSticky ==
    [][ automation_status = "cancelled" => automation_status' = "cancelled" ]_vars

============================================================================
